---- MODULE Spec2Model ----
(***************************************************************************)
(* Model of server/dbt_core.py: new_get_columns_in_relation, the override  *)
(* of the BigQuery adapter's get_columns_in_relation.  One resolver call   *)
(* builds a request from the relation's path, sends it to the sidecar over *)
(* HTTP, reads the body, and either parses the body as a column array or   *)
(* falls back to the warehouse (get_bq_table).  The sidecar and the        *)
(* warehouse are the environment: their answer to a request is chosen the  *)
(* first time the request is seen and stays the same afterwards.           *)
(***************************************************************************)
EXTENDS Naturals, Sequences, FiniteSets

\* Number of resolver calls of a run that may ask for any relation of
\* TableKeys.
MaxCalls == 1
\* Number of resolver calls of a run in which the models refer to the
\* relations of RepeatKeys again and again.
MaxRepeat == 3

VARIABLES
    run,          \* which relations the compiler asks about: "any" or "repeat"
    calls,        \* resolver calls finished so far
    pc,           \* position of the running call in new_get_columns_in_relation
    relation,     \* argument `relation` of the running call
    requests,     \* the request targets handed to conn.request in this call
    bodyRead,     \* TRUE once response.read() has returned in this call
    result,       \* local `result`: the decoded response body
    fallbackArgs, \* the argument triples handed to get_bq_table in this call
    tableFromBq,  \* local `table_from_bq`: what get_bq_table answered
    outcome,      \* how the running call ended: a return value or an exception
    sidecar,      \* the sidecar's answers, by request target
    bigquery,     \* the warehouse's answers, by get_bq_table arguments
    history       \* the finished calls that got a response: relation, outcome

vars == <<run, calls, pc, relation, requests, bodyRead, result,
          fallbackArgs, tableFromBq, outcome, sidecar, bigquery, history>>

----------------------------------------------------------------------------
(* Python values.  A str is a sequence of characters; an Optional[str] is  *)
(* a record that says whether it is None.                                  *)

None == [some |-> FALSE, v |-> ""]
Str(s) == [some |-> TRUE, v |-> s]

Databases == {None, Str("proj")}
Schemas == {None, Str("ds")}
Identifiers == {None, Str("tbl"), Str("None")}

\* relation.path: database, schema, identifier, each possibly None.
TableKeys == [database : Databases, schema : Schemas, identifier : Identifiers]

RepeatKeys == {[database |-> Str("proj"), schema |-> Str("ds"), identifier |-> Str("tbl")],
               [database |-> Str("proj"), schema |-> None, identifier |-> Str("tbl")]}

\* The relations the run asks about, and the number of calls it makes.
Relations == IF run = "any" THEN TableKeys ELSE RepeatKeys
Budget == IF run = "any" THEN MaxCalls ELSE MaxRepeat

----------------------------------------------------------------------------
(* JSON values as json.loads builds them: str, number, list, dict.  Of a   *)
(* dict only the keys are kept (iteration yields keys; the resolver never  *)
(* looks a key up).                                                        *)

JStr(s) == [t |-> "str", s |-> s, items |-> <<>>]
JNum(n) == [t |-> "num", s |-> <<n>>, items |-> <<>>]
JList(xs) == [t |-> "list", s |-> <<>>, items |-> xs]
JDict(ks) == [t |-> "dict", s |-> <<>>, items |-> ks]
JNull == [t |-> "null", s |-> <<>>, items |-> <<>>]

(* The response body is text: a sequence of lexical tokens.  A bare word   *)
(* (SOURCE, NOT_FOUND, oops) is text that is not JSON.                     *)
Tok(k) == [k |-> k, s |-> <<>>]
TStr(s) == [k |-> "str", s |-> s]
TNum(n) == [k |-> "num", s |-> <<n>>]
Word(w) == [k |-> "word", s |-> <<w>>]

LB == Tok("[")
RB == Tok("]")
LC == Tok("{")
RC == Tok("}")
CM == Tok(",")
CL == Tok(":")

NoParse == [ok |-> FALSE, val |-> JNull, rest |-> <<>>]
Parsed(v, rest) == [ok |-> TRUE, val |-> v, rest |-> rest]

RECURSIVE ParseValue(_), ParseElements(_, _), ParseMembers(_, _)
ParseValue(toks) ==
    IF toks = <<>> THEN NoParse
    ELSE LET h == Head(toks)
             r == Tail(toks)
         IN  CASE h.k = "str" -> Parsed(JStr(h.s), r)
               [] h.k = "num" -> Parsed(JNum(h.s[1]), r)
               [] h.k = "[" -> IF r # <<>> /\ Head(r) = RB
                                THEN Parsed(JList(<<>>), Tail(r))
                                ELSE ParseElements(r, <<>>)
               [] h.k = "{" -> IF r # <<>> /\ Head(r) = RC
                                THEN Parsed(JDict(<<>>), Tail(r))
                                ELSE ParseMembers(r, <<>>)
               [] OTHER -> NoParse

ParseElements(toks, acc) ==
    LET e == ParseValue(toks)
    IN  IF ~e.ok \/ e.rest = <<>> THEN NoParse
        ELSE IF Head(e.rest) = CM THEN ParseElements(Tail(e.rest), Append(acc, e.val))
        ELSE IF Head(e.rest) = RB THEN Parsed(JList(Append(acc, e.val)), Tail(e.rest))
        ELSE NoParse

ParseMembers(toks, acc) ==
    IF Len(toks) < 2 \/ toks[1].k # "str" \/ toks[2] # CL THEN NoParse
    ELSE LET e == ParseValue(SubSeq(toks, 3, Len(toks)))
         IN  IF ~e.ok \/ e.rest = <<>> THEN NoParse
             ELSE IF Head(e.rest) = CM
                  THEN ParseMembers(Tail(e.rest), Append(acc, JStr(toks[1].s)))
             ELSE IF Head(e.rest) = RC
                  THEN Parsed(JDict(Append(acc, JStr(toks[1].s))), Tail(e.rest))
             ELSE NoParse

\* json.loads(result): the value, or JSONDecodeError when the text is not
\* one JSON value (also when text follows the value: "Extra data").
json_loads(text) ==
    LET p == ParseValue(text)
    IN  IF p.ok /\ p.rest = <<>> THEN [ok |-> TRUE, val |-> p.val]
        ELSE [ok |-> FALSE, val |-> JNull]

----------------------------------------------------------------------------
(* Exceptions.  An except clause catches a class and its subclasses.       *)

Bases(exc) ==
    CASE exc = "JSONDecodeError" -> {"JSONDecodeError", "ValueError"}
      [] exc = "ConnectionRefusedError" -> {"ConnectionRefusedError", "OSError"}
      [] exc = "RemoteDisconnected" -> {"RemoteDisconnected", "OSError"}
      [] exc = "IncompleteRead" -> {"IncompleteRead", "HTTPException"}
      [] exc = "NotFound" -> {"NotFound", "GoogleAPICallError"}
      [] exc = "Forbidden" -> {"Forbidden", "GoogleAPICallError"}
      [] OTHER -> {exc}

NoOutcome == [kind |-> "none", exc |-> "", columns |-> <<>>]
Return(cols) == [kind |-> "return", exc |-> "", columns |-> cols]
Raise(exc) == [kind |-> "raise", exc |-> exc, columns |-> <<>>]

\* The statements the try of lines 53-57 covers.
TryBlock == {"fallback"}

\* Faulty variant: a bare except around the whole function body.
CatchesEverywhere(at, exc) == TRUE

\* Faulty variant: except google.cloud.exceptions.NotFound alone.
CatchesOnlyNotFound(at, exc) ==
    at \in {"fallback"} /\ "NotFound" \in Bases(exc)

\* except (ValueError, google.cloud.exceptions.NotFound), for an exception
\* raised at position `at` of the function.
Catches(at, exc) ==
    at \in TryBlock /\ Bases(exc) \cap {"ValueError", "NotFound"} # {}

\* How the call ends when `exc` is raised at position `at`.
Raised(at, exc) == IF Catches(at, exc) THEN Return(<<>>) ELSE Raise(exc)

----------------------------------------------------------------------------
(* Line 49: the list comprehension over the parsed data.                   *)

Fail(exc) == [ok |-> FALSE, exc |-> exc, val |-> JNull]
Ok(v) == [ok |-> TRUE, exc |-> "", val |-> v]

Chars(s) == [i \in 1..Len(s) |-> JStr(<<s[i]>>)]

\* for column in data
Iterate(data) ==
    CASE data.t \in {"list", "dict"} -> [ok |-> TRUE, exc |-> "", items |-> data.items]
      [] data.t = "str" -> [ok |-> TRUE, exc |-> "", items |-> Chars(data.s)]
      [] OTHER -> [ok |-> FALSE, exc |-> "TypeError", items |-> <<>>]

\* column[i], i counted from 0
Subscript(column, i) ==
    CASE column.t = "list" -> IF i < Len(column.items) THEN Ok(column.items[i + 1])
                              ELSE Fail("IndexError")
      [] column.t = "str" -> IF i < Len(column.s) THEN Ok(JStr(<<column.s[i + 1]>>))
                             ELSE Fail("IndexError")
      [] column.t = "dict" -> Fail("KeyError")
      [] OTHER -> Fail("TypeError")

UpperChar(c) ==
    CASE c = "text" -> "TEXT"
      [] c = "a" -> "A"
      [] c = "b" -> "B"
      [] OTHER -> c

upper(s) == [i \in 1..Len(s) |-> UpperChar(s[i])]

\* BigQueryColumn.TYPE_LABELS
TYPE_LABELS(label) ==
    CASE label = <<"TEXT">> -> [found |-> TRUE, v |-> <<"STRING">>]
      [] label = <<"FLOAT">> -> [found |-> TRUE, v |-> <<"FLOAT64">>]
      [] label = <<"INTEGER">> -> [found |-> TRUE, v |-> <<"INT64">>]
      [] OTHER -> [found |-> FALSE, v |-> <<>>]

\* Column.translate_type: cls.TYPE_LABELS.get(dtype.upper(), dtype)
translate_type(dtype) ==
    IF TYPE_LABELS(upper(dtype)).found THEN TYPE_LABELS(upper(dtype)).v ELSE dtype

BigQueryColumn(column, dtype) == [column |-> column, dtype |-> dtype]

\* BigQueryColumn(column[0], BigQueryColumn.translate_type(column[1]))
ColumnOf(column) ==
    LET n == Subscript(column, 0)
        d == Subscript(column, 1)
    IN  IF ~n.ok THEN [ok |-> FALSE, exc |-> n.exc, col |-> BigQueryColumn(JNull, <<>>)]
        ELSE IF ~d.ok THEN [ok |-> FALSE, exc |-> d.exc, col |-> BigQueryColumn(JNull, <<>>)]
        ELSE IF d.val.t # "str"
             THEN [ok |-> FALSE, exc |-> "AttributeError", col |-> BigQueryColumn(JNull, <<>>)]
        ELSE [ok |-> TRUE, exc |-> "", col |-> BigQueryColumn(n.val, translate_type(d.val.s))]

\* Faulty variant: a list shared between calls, holding the last result.
LastColumns ==
    IF history = <<>> THEN <<>> ELSE history[Len(history)].outcome.columns

\* The list a comprehension starts from.
NewList == <<>>

RECURSIVE Collect(_, _)
Collect(items, acc) ==
    IF items = <<>> THEN [ok |-> TRUE, exc |-> "", columns |-> acc]
    ELSE LET c == ColumnOf(Head(items))
         IN  IF ~c.ok THEN [ok |-> FALSE, exc |-> c.exc, columns |-> <<>>]
             ELSE Collect(Tail(items), Append(acc, c.col))

\* Faulty variant: the columns come out in reverse order.
CollectReversed(data) ==
    LET it == Iterate(data)
        fwd == Collect(it.items, NewList)
    IN  IF ~it.ok THEN [ok |-> FALSE, exc |-> it.exc, columns |-> <<>>]
        ELSE IF ~fwd.ok THEN fwd
        ELSE [ok |-> TRUE, exc |-> "",
              columns |-> [i \in 1..Len(fwd.columns) |->
                               fwd.columns[Len(fwd.columns) + 1 - i]]]

\* [BigQueryColumn(...) for column in data]
bigquery_columns(data) ==
    LET it == Iterate(data)
    IN  IF ~it.ok THEN [ok |-> FALSE, exc |-> it.exc, columns |-> <<>>]
        ELSE Collect(it.items, NewList)

\* Lines 48-51: the outcome for a body that is not a sentinel.
ParseBranch(text) ==
    LET data == json_loads(text)
    IN  IF ~data.ok THEN Raised("parse", "JSONDecodeError")
        ELSE IF ~bigquery_columns(data.val).ok
             THEN Raised("parse", bigquery_columns(data.val).exc)
        ELSE Return(bigquery_columns(data.val).columns)

----------------------------------------------------------------------------
(* The environment: response bodies and warehouse answers.                 *)

SOURCE == <<Word("SOURCE")>>
NOT_FOUND == <<Word("NOT_FOUND")>>

Pair(a, b) == <<LB, TStr(<<a>>), CM, TStr(<<b>>), RB>>

Bodies ==
    { SOURCE, NOT_FOUND,
      <<Word("oops")>>,                                       \* oops
      <<>>,                                                   \* the empty body
      <<TStr(<<"SOURCE">>)>>,                                 \* "SOURCE", quoted
      <<LB, RB>>,                                             \* []
      <<LB>> \o Pair("id", "INT64") \o <<CM>> \o Pair("name", "STRING") \o <<RB>>,
      <<LB>> \o Pair("name", "text") \o <<CM>> \o Pair("id", "INTEGER") \o <<RB>>,
      <<LB>> \o Pair("id", "INT64") \o <<CM>> \o Pair("name", "STRING"),  \* no closing ]
      <<LC, RC>>,                                             \* {}
      <<LC, TStr(<<"a", "b">>), CL, TNum("5"), RC>>,          \* {"ab": 5}
      <<TNum("5")>>,                                          \* 5
      <<TStr(<<>>)>>,                                         \* ""
      <<TStr(<<"a", "b">>)>>,                                 \* "ab"
      <<LB, TStr(<<"a", "b">>), RB>>,                         \* ["ab"]
      <<LB, LB, TStr(<<"id">>), RB, RB>>,                     \* [["id"]]
      <<LB, LB, TStr(<<"id">>), CM, TNum("5"), RB, RB>> }     \* [["id", 5]]

Field(n, ft) == [name |-> <<n>>, field_type |-> <<ft>>]

\* What get_bq_table does: it returns a table (its schema), or raises.
BqAnswers ==
    { [exc |-> "", schema |-> <<Field("id", "INTEGER"), Field("name", "STRING")>>],
      [exc |-> "", schema |-> <<>>],
      [exc |-> "NotFound", schema |-> <<>>],
      [exc |-> "ValueError", schema |-> <<>>],
      [exc |-> "Forbidden", schema |-> <<>>] }

\* self._get_dbt_columns_from_bq_table(table)
get_dbt_columns_from_bq_table(table) ==
    [i \in 1..Len(table.schema) |->
        BigQueryColumn(JStr(table.schema[i].name), translate_type(table.schema[i].field_type))]

----------------------------------------------------------------------------
(* new_get_columns_in_relation, lines 37-60.                               *)

\* Faulty variant: an absent component is sent as the empty string.
NoneAsEmpty(c) == IF c.some THEN c.v ELSE ""

\* Lines 38-40: x if x != None else "None"
OrNone(c) == IF c.some THEN c.v ELSE "None"

\* Line 44: the request target, built by string concatenation.
Target(rel) ==
    <<"/macro?name=get_columns_in_relation&db=", OrNone(rel.database),
      "&schema=", OrNone(rel.schema), "&table=", OrNone(rel.identifier)>>

\* Faulty variant: the fallback gets the substituted db, schema, table.
SubstitutedKeywords(rel) ==
    [database |-> Str(OrNone(rel.database)), schema |-> Str(OrNone(rel.schema)),
     identifier |-> Str(OrNone(rel.identifier))]

\* Lines 54-56: the keyword arguments of get_bq_table.
Keywords(rel) ==
    [database |-> rel.database, schema |-> rel.schema, identifier |-> rel.identifier]

\* Faulty variant: SOURCE is not in the list.
OnlyNotFound == {NOT_FOUND}

\* Line 47: ["SOURCE", "NOT_FOUND"]
Sentinels == {SOURCE, NOT_FOUND}

\* Faulty variant: every body is taken for a sentinel.
NeverParses(text) == TRUE

\* Line 47 negated: the body is one of the two strings, compared whole.
Defers(text) == text \in Sentinels

NoTable == [exc |-> "", schema |-> <<>>]

Init ==
    /\ run \in {"any", "repeat"}
    /\ calls = 0
    /\ pc = "idle"
    /\ relation = [database |-> None, schema |-> None, identifier |-> None]
    /\ requests = <<>>
    /\ bodyRead = FALSE
    /\ result = <<>>
    /\ fallbackArgs = <<>>
    /\ tableFromBq = NoTable
    /\ outcome = NoOutcome
    /\ sidecar = {}
    /\ bigquery = {}
    /\ history = <<>>

\* The adapter's get_columns_in_relation is called with a relation.
Call(rel) ==
    /\ pc = "idle"
    /\ calls < Budget
    /\ rel \in Relations
    /\ relation' = rel
    /\ pc' = "request"
    /\ requests' = <<>>
    /\ bodyRead' = FALSE
    /\ result' = <<>>
    /\ fallbackArgs' = <<>>
    /\ tableFromBq' = NoTable
    /\ outcome' = NoOutcome
    /\ UNCHANGED <<run, calls, sidecar, bigquery, history>>

\* Lines 42-44: conn.request connects and sends, or the connection fails.
ConnRequest ==
    /\ pc = "request"
    /\ requests' = Append(requests, [method |-> "GET", target |-> Target(relation)])
    /\ \/ pc' = "getresponse" /\ outcome' = outcome
       \/ pc' = "done" /\ outcome' = Raised("request", "ConnectionRefusedError")
    /\ UNCHANGED <<run, calls, relation, bodyRead, result,
                   fallbackArgs, tableFromBq, sidecar, bigquery, history>>

\* Line 45: conn.getresponse() reads the status line and the headers.
GetResponse ==
    /\ pc = "getresponse"
    /\ \/ pc' = "read" /\ outcome' = outcome
       \/ pc' = "done" /\ outcome' = Raised("getresponse", "RemoteDisconnected")
    /\ UNCHANGED <<run, calls, relation, requests, bodyRead, result,
                   fallbackArgs, tableFromBq, sidecar, bigquery, history>>

\* Line 46: response.read().decode().  The sidecar answers a target it has
\* answered before with the same body.
ResponseRead ==
    /\ pc = "read"
    /\ LET target == requests[Len(requests)].target
       IN  \/ \E body \in Bodies :
                /\ \A a \in sidecar : a.target = target => a.body = body
                /\ sidecar' = sidecar \cup {[target |-> target, body |-> body]}
                /\ result' = body
                /\ bodyRead' = TRUE
                /\ pc' = "dispatch"
                /\ outcome' = outcome
           \/ /\ pc' = "done"
              /\ outcome' = Raised("read", "IncompleteRead")
              /\ UNCHANGED <<sidecar, result, bodyRead>>
    /\ UNCHANGED <<run, calls, relation, requests,
                   fallbackArgs, tableFromBq, bigquery, history>>

\* Lines 47-51: a body that is not a sentinel is parsed and returned.
Dispatch ==
    /\ pc = "dispatch"
    /\ IF Defers(result)
       THEN pc' = "fallback" /\ outcome' = outcome
       ELSE pc' = "done" /\ outcome' = ParseBranch(result)
    /\ UNCHANGED <<run, calls, relation, requests, bodyRead, result,
                   fallbackArgs, tableFromBq, sidecar, bigquery, history>>

\* Faulty variant: a handled failure of get_bq_table is tried once more.
FallbackRetrying ==
    /\ pc = "fallback"
    /\ \E answer \in BqAnswers :
          /\ \A a \in bigquery : a.args = Keywords(relation) => a.answer = answer
          /\ bigquery' = bigquery \cup {[args |-> Keywords(relation), answer |-> answer]}
          /\ fallbackArgs' = Append(fallbackArgs, Keywords(relation))
          /\ tableFromBq' = answer
          /\ IF answer.exc # "" /\ Catches("fallback", answer.exc) /\ fallbackArgs = <<>>
             THEN pc' = "fallback" /\ outcome' = outcome
             ELSE /\ pc' = "done"
                  /\ outcome' = IF answer.exc # "" THEN Raised("fallback", answer.exc)
                                ELSE Return(get_dbt_columns_from_bq_table(answer))
    /\ UNCHANGED <<run, calls, relation, requests, bodyRead, result,
                   sidecar, history>>

\* Lines 53-60: get_bq_table, then the conversion, inside the try.  The
\* warehouse answers arguments it has answered before in the same way.
Fallback ==
    /\ pc = "fallback"
    /\ \E answer \in BqAnswers :
          /\ \A a \in bigquery : a.args = Keywords(relation) => a.answer = answer
          /\ bigquery' = bigquery \cup {[args |-> Keywords(relation), answer |-> answer]}
          /\ fallbackArgs' = Append(fallbackArgs, Keywords(relation))
          /\ tableFromBq' = answer
          /\ outcome' = IF answer.exc # "" THEN Raised("fallback", answer.exc)
                        ELSE Return(get_dbt_columns_from_bq_table(answer))
    /\ pc' = "done"
    /\ UNCHANGED <<run, calls, relation, requests, bodyRead, result,
                   sidecar, history>>

\* The call returns to the compiler, or its exception reaches the compiler.
Finish ==
    /\ pc = "done"
    /\ pc' = "idle"
    /\ calls' = calls + 1
    /\ history' = IF bodyRead
                  THEN Append(history, [relation |-> relation, outcome |-> outcome])
                  ELSE history
    /\ UNCHANGED <<run, relation, requests, bodyRead, result,
                   fallbackArgs, tableFromBq, outcome, sidecar, bigquery>>

Next ==
    \/ \E rel \in TableKeys : Call(rel)
    \/ ConnRequest
    \/ GetResponse
    \/ ResponseRead
    \/ Dispatch
    \/ Fallback
    \/ Finish

Spec == Init /\ [][Next]_vars

----------------------------------------------------------------------------
(* The properties of the resolver.  A call has ended when pc = "done":     *)
(* outcome then holds its return value or the exception that reaches the   *)
(* caller, requests the requests it made, fallbackArgs its get_bq_table    *)
(* calls.                                                                  *)

Ended == pc = "done"
GotBody(text) == pc = "done" /\ bodyRead /\ result = text

ReturnsEmpty == outcome.kind = "return" /\ outcome.columns = <<>>

OriginalKey(args) ==
    /\ args.database = relation.database
    /\ args.schema = relation.schema
    /\ args.identifier = relation.identifier

\* The call's result is what the fallback gave: the table's columns in the
\* table's order, [] for the two handled errors, any other error raised.
FallbackResult ==
    /\ Len(fallbackArgs) = 1
    /\ OriginalKey(fallbackArgs[1])
    /\ tableFromBq.exc = "" =>
          /\ outcome.kind = "return"
          /\ Len(outcome.columns) = Len(tableFromBq.schema)
          /\ \A i \in 1..Len(tableFromBq.schema) :
                outcome.columns[i].column.s = tableFromBq.schema[i].name
    /\ tableFromBq.exc \in {"NotFound", "ValueError"} => ReturnsEmpty
    /\ tableFromBq.exc \notin {"", "NotFound", "ValueError"} =>
          outcome.kind = "raise" /\ outcome.exc = tableFromBq.exc

C2_NotFoundTakesFallback ==
    GotBody(NOT_FOUND) =>
        /\ Len(fallbackArgs) = 1
        /\ OriginalKey(fallbackArgs[1])
        /\ \A c \in {"database", "schema", "identifier"} :
              ~relation[c].some => ~fallbackArgs[1][c].some
        /\ tableFromBq.exc = "" =>
              /\ outcome.kind = "return"
              /\ outcome.columns = get_dbt_columns_from_bq_table(tableFromBq)

C2_Witness ==
    /\ GotBody(NOT_FOUND)
    /\ ~relation.schema.some
    /\ ~fallbackArgs[1].schema.some
    /\ tableFromBq.exc = ""
    /\ Len(outcome.columns) = 2

IsPair(v) ==
    /\ v.t = "list"
    /\ Len(v.items) = 2
    /\ v.items[1].t = "str"
    /\ v.items[2].t = "str"

IsPairArray(v) == v.t = "list" /\ \A i \in 1..Len(v.items) : IsPair(v.items[i])

\* The body is a JSON array of [name, rawType] pairs of strings.
IsColumnArray(text) == json_loads(text).ok /\ IsPairArray(json_loads(text).val)

\* BigQuery's translation of the raw types the bodies carry.
Translated(raw) ==
    CASE raw = <<"text">> -> <<"STRING">>
      [] raw = <<"INTEGER">> -> <<"INT64">>
      [] OTHER -> raw

\* C3: when the body is a non-sentinel array of [name, rawType] pairs, the
\* call returns one column per pair, in the array's order and of its
\* length, the i-th with the i-th name and the translation of the i-th raw
\* type, and get_bq_table is not called.
C3_ColumnsInOrder ==
    (Ended /\ bodyRead /\ result \notin {SOURCE, NOT_FOUND} /\ IsColumnArray(result)) =>
        LET pairs == json_loads(result).val.items
        IN  /\ outcome.kind = "return"
            /\ Len(outcome.columns) = Len(pairs)
            /\ \A i \in 1..Len(pairs) :
                  /\ outcome.columns[i].column = pairs[i].items[1]
                  /\ outcome.columns[i].dtype = Translated(pairs[i].items[2].s)
            /\ fallbackArgs = <<>>

C3_Witness ==
    /\ Ended
    /\ bodyRead
    /\ IsColumnArray(result)
    /\ fallbackArgs = <<>>
    /\ outcome.columns = <<[column |-> JStr(<<"name">>), dtype |-> <<"STRING">>],
                           [column |-> JStr(<<"id">>), dtype |-> <<"INT64">>]>>

\* C4 as stated: when the body is neither sentinel nor a parseable column
\* array, the call ends with an error that reaches the caller: it does not
\* return an empty sequence (or any sequence), and get_bq_table is not called.
C4_MalformedBodyRaises ==
    (Ended /\ bodyRead /\ result \notin {SOURCE, NOT_FOUND} /\ ~IsColumnArray(result)) =>
        /\ outcome.kind = "raise"
        /\ fallbackArgs = <<>>

\* C5: when get_bq_table is called and fails with NotFound or ValueError,
\* the call returns an empty sequence and no error reaches the caller.
C5_FallbackFailureIsEmpty ==
    (Ended /\ fallbackArgs # <<>> /\ tableFromBq.exc \in {"NotFound", "ValueError"}) =>
        ReturnsEmpty

C5_Witness ==
    /\ Ended
    /\ Len(fallbackArgs) = 1
    /\ tableFromBq.exc = "ValueError"
    /\ ReturnsEmpty

Sent(c) == IF c = None THEN "None" ELSE c.v

\* C6: the request target carries the string "None" at the position of each
\* absent component and the component's own value at every other position,
\* as the db, schema and table parameters of get_columns_in_relation.
C6_RequestSubstitutesNone ==
    \A i \in 1..Len(requests) :
        /\ requests[i].method = "GET"
        /\ requests[i].target =
              <<"/macro?name=get_columns_in_relation&db=", Sent(relation.database),
                "&schema=", Sent(relation.schema), "&table=", Sent(relation.identifier)>>

C6_Witness ==
    /\ Len(requests) = 1
    /\ relation.database = None
    /\ relation.schema = Str("ds")
    /\ relation.identifier = None
    /\ requests[1].target = <<"/macro?name=get_columns_in_relation&db=", "None",
                              "&schema=", "ds", "&table=", "None">>

\* C7: a call makes exactly one request to the sidecar and calls
\* get_bq_table at most once, however the sidecar and the warehouse answer.
C7_OneRequestAtMostOneFallback ==
    /\ Len(requests) <= 1
    /\ Len(fallbackArgs) <= 1
    /\ Ended => Len(requests) = 1

C7_Witness ==
    /\ Ended
    /\ Len(requests) = 1
    /\ Len(fallbackArgs) = 1
    /\ tableFromBq.exc = "NotFound"

\* C8: two calls with the same key, against a sidecar and a warehouse whose
\* answers do not change, end the same way.
C8_RepeatedCallsAgree ==
    \A i, j \in 1..Len(history) :
        history[i].relation = history[j].relation =>
            history[i].outcome = history[j].outcome

C8_Witness ==
    /\ Len(history) >= 2
    /\ history[1].relation = history[2].relation
    /\ history[1].outcome.kind = "return"
    /\ Len(history[1].outcome.columns) = 2

\* C9: get_bq_table is called only after the sidecar's body has been read
\* whole and found to be one of the two deferral strings; while the request
\* is under way no fallback call has been made.
C9_FallbackAfterSidecar ==
    /\ pc \in {"request", "getresponse", "read", "dispatch"} => fallbackArgs = <<>>
    /\ (pc = "fallback" \/ fallbackArgs # <<>>) =>
          bodyRead /\ result \in {SOURCE, NOT_FOUND}

C9_Witness ==
    /\ Len(fallbackArgs) = 1
    /\ bodyRead
    /\ result = NOT_FOUND

\* C10: when the connection to the sidecar fails, the transport error
\* reaches the caller: nothing is returned and get_bq_table is not called.
C10_TransportErrorPropagates ==
    (Ended /\ ~bodyRead) =>
        /\ outcome.kind = "raise"
        /\ outcome.exc \in {"ConnectionRefusedError", "RemoteDisconnected", "IncompleteRead"}
        /\ fallbackArgs = <<>>

C10_Witness ==
    /\ Ended
    /\ outcome.kind = "raise"
    /\ outcome.exc = "ConnectionRefusedError"
    /\ fallbackArgs = <<>>

====
